---------------------------- MODULE Spec2Model ----------------------------
(***************************************************************************)
(* Model of the LightPulseTrigger firmware (LightPulseTrigger.ino): the    *)
(* trigger detector with hysteresis and pulse skipping, the line oriented  *)
(* command interpreter, the calibration thresholds kept in EEPROM and the  *)
(* main loop that multiplexes commands and data on one serial line.        *)
(*                                                                         *)
(* Characters are one-character strings, NUL is the empty string.  The     *)
(* serial output is modelled as the characters written by the last step.   *)
(* One step of the model is one stretch of loop() between two program      *)
(* points: the top of loop(), the read loop of doCommand() (which blocks   *)
(* waiting for input), the dispatch after a completed line, and the        *)
(* measurement at the end of loop().                                       *)
(***************************************************************************)
EXTENDS Integers, Sequences, FiniteSets, TLC

VARIABLES
  command,           \* char command[MAX_CMD_LEN]
  inCount,           \* command buffer index
  cmdComplete,       \* a terminated line is in the buffer
  mode,              \* "C" command, "D" data output
  dataOutput,        \* "R" raw data, "T" trigger events
  triggerLevelLow,   \* thresholds in RAM (int, 16 bit)
  triggerLevelHigh,
  triggerState,      \* state of the hysteresis detector
  counter,           \* rising edges since the last reported falling edge
  eeprom,            \* the two 16 bit words of the calibration store
  pulsesToSkip,      \* the build's decimation constant
  ledOut,            \* level of the signal LED pin
  pc,                \* program point: "loop", "doCommand", "measure"
  rx,                \* bytes sent by the host and not yet read
  tx,                \* characters written to the serial line by the last step
  sensorValue,       \* value read by analogRead in the last step, or NoSample
  oob,               \* setTriggerLevels has addressed memory outside command
  resets,            \* number of resets since power-on
  lastS,             \* the pair of integers parsed by the most recent S command
  hist               \* observed samples of a detector run and the lines they gave

vars == <<command, inCount, cmdComplete, mode, dataOutput, triggerLevelLow,
          triggerLevelHigh, triggerState, counter, eeprom, pulsesToSkip, ledOut,
          pc, rx, tx, sensorValue, oob, resets, lastS, hist>>

-----------------------------------------------------------------------------
(* Program constants and the bounds of the model *)

MAX_CMD_LEN == 80

\* largest decimation constant explored (the shipped build uses 49)
MaxSkip == 2
\* samples observed in a recorded detector run
MaxSamples == 6
\* resets explored
MaxResets == 1
\* bytes of unknown content that follow the command buffer in memory
TailLen == 2
\* spaces in front of a token of a generated S line
MaxSpaces == 2

NUL == ""
SP == " "
CR == "\r"
LF == "\n"
\* stands for "no sample read": a value analogRead never returns
NoSample == 0 - 1
NoPair == <<>>

Digits == <<"0", "1", "2", "3", "4", "5", "6", "7", "8", "9">>

\* values analogRead delivers in the model (the hardware range is 0..1023)
Samples == {50, 90, 512}

\* samples of a recorded detector run: below, on, between and above the levels
\* of DetectLevels
EdgeSamples == {50, 80, 100, 120}

-----------------------------------------------------------------------------
(* Conversions *)

\* eeprom_write_word takes a uint16_t: the int argument is converted modulo 2^16
ToWord(x) == x % 65536

\* (int)eeprom_read_word(..): a 16 bit word read as a signed int
ToInt(w) == IF w >= 32768 THEN w - 65536 ELSE w

RECURSIVE DecDigits(_)
DecDigits(n) ==
  IF n < 10 THEN <<Digits[n + 1]>>
  ELSE Append(DecDigits(n \div 10), Digits[(n % 10) + 1])

\* Serial.print(int): decimal text, with a minus sign for negative values
Dec(n) == IF n < 0 THEN <<"-">> \o DecDigits(-n) ELSE DecDigits(n)

\* Serial.println(x) for an int
PrintLn(n) == Dec(n) \o <<CR, LF>>


IsSpace(c) == c \in {" ", "\t", "\n", "\r", "\f"}

IsDigit(c) == \E d \in 1..10 : Digits[d] = c

DigitVal(c) == (CHOOSE d \in 1..10 : Digits[d] = c) - 1

RECURSIVE SkipBlank(_, _)
SkipBlank(s, i) ==
  IF i <= Len(s) /\ IsSpace(s[i]) THEN SkipBlank(s, i + 1) ELSE i

RECURSIVE DigitRun(_, _, _)
DigitRun(s, i, acc) ==
  IF i <= Len(s) /\ IsDigit(s[i])
  THEN DigitRun(s, i + 1, acc * 10 + DigitVal(s[i]))
  ELSE acc

\* atoi of the C library: leading white space, an optional sign, then the
\* longest run of decimal digits; 0 when there is none.  The result is an int
\* (16 bit on the AVR); the C library leaves the result open for a number
\* outside the range of int, and no token of the inputs below is one.
atoi(s) ==
  LET i == SkipBlank(s, 1)
      signed == i <= Len(s) /\ s[i] \in {"-", "+"}
      v == DigitRun(s, IF signed THEN i + 1 ELSE i, 0)
  IN  ToInt(ToWord(IF signed /\ s[i] = "-" THEN -v ELSE v))

-----------------------------------------------------------------------------
(* Calibration store *)

\* the text readTriggerLevels prints in front of the two levels
Label == <<"T", "r", "i", "g", "g", "e", "r", " ",
           "l", "e", "v", "e", "l", "s", ":", " ">>

\* variant: the words are taken as unsigned values
readTriggerLevels_unsigned(e) == [low |-> e.low, high |-> e.high]

\* readTriggerLevels: the two words of the EEPROM as ints
readTriggerLevels(e) == [low |-> ToInt(e.low), high |-> ToInt(e.high)]

\* what readTriggerLevels prints
Readout(lv) == Label \o Dec(lv.low) \o <<SP>> \o PrintLn(lv.high)

\* the two eeprom_write_word calls of setTriggerLevels; both calls and both
\* eeprom_read_word calls name their word by the address of the same variable,
\* so the two words are distinct and each is read where it was written
writeTriggerLevels(lo, hi) == [low |-> ToWord(lo), high |-> ToWord(hi)]

-----------------------------------------------------------------------------
(* setTriggerLevels: the scan of the command buffer *)

\* last address of the memory the model lets the scan look at: the buffer, the
\* TailLen bytes after it and zero bytes behind those
MemTop == MAX_CMD_LEN + TailLen + 2

\* contents that the bytes following the buffer may have
Tails == [1..TailLen -> {NUL, SP, "7"}]

\* the memory starting at &command[0], with the given bytes behind the buffer
Mem(tail) ==
  [i \in 0..MemTop |->
     IF i < MAX_CMD_LEN THEN command[i]
     ELSE IF i - MAX_CMD_LEN < TailLen THEN tail[i - MAX_CMD_LEN + 1]
     ELSE NUL]

\* variant: the spaces in front of a token are not skipped
SkipSpaces_none(m, p) == p

\* while (*p != 0 && *p == ' ') ++p;
RECURSIVE SkipSpaces(_, _)
SkipSpaces(m, p) ==
  IF m[p] # NUL /\ m[p] = SP THEN SkipSpaces(m, p + 1) ELSE p

\* while (*q != 0 && *q != ' ') ++q;
RECURSIVE ScanToken(_, _)
ScanToken(m, q) ==
  IF m[q] # NUL /\ m[q] # SP THEN ScanToken(m, q + 1) ELSE q

\* the C string that starts at address p
RECURSIVE CStr(_, _)
CStr(m, p) == IF m[p] = NUL THEN <<>> ELSE <<m[p]>> \o CStr(m, p + 1)

\* the values setTriggerLevels hands to eeprom_write_word, the memory it
\* leaves behind and the highest address it touched
setTriggerLevels(m) ==
  LET p1 == SkipSpaces(m, 1)
      q1 == ScanToken(m, p1 + 1)
      m1 == [m EXCEPT ![q1] = NUL]
      p2 == SkipSpaces(m1, q1 + 1)
      q2 == ScanToken(m1, p2 + 1)
      m2 == [m1 EXCEPT ![q2] = NUL]
  IN  [low |-> atoi(CStr(m1, p1)), high |-> atoi(CStr(m2, p2)),
       mem |-> m2, last |-> q2]

-----------------------------------------------------------------------------
(* detectTrigger *)

\* variant: the high level itself already counts as light
nextState_ge(val) ==
  IF val >= triggerLevelHigh THEN TRUE
  ELSE IF val < triggerLevelLow THEN FALSE
  ELSE triggerState

\* variant: the low level is compared first
nextState_lowFirst(val) ==
  IF val < triggerLevelLow THEN FALSE
  ELSE IF val > triggerLevelHigh THEN TRUE
  ELSE triggerState

\* the state currently visible on the sensor
nextState(val) ==
  IF val > triggerLevelHigh THEN TRUE
  ELSE IF val < triggerLevelLow THEN FALSE
  ELSE triggerState

\* variant: the pulse that completes the skipped ones is already reported
allSkipped_ge(c) == c >= pulsesToSkip

\* "All pulses skipped"
allSkipped(c) == c > pulsesToSkip

\* variant: the increment is lost
risingCount_lost(c) == c

\* "Count up pulse counter on rising edge"
risingCount(c) == c + 1

\* variant: the counter is never reset
fallingCount_never(c) == c

\* variant: the counter is reset on every falling edge
fallingCount_always(c) == 0

\* the counter after a falling edge: reset when the edge is reported
fallingCount(c) == IF allSkipped(c) THEN 0 ELSE c

\* variant: the falling edge is reported from pulsesToSkip pulses on, the
\* rising edge only above pulsesToSkip
detectTrigger_fallGe(val) ==
  IF nextState(val) # triggerState
  THEN IF nextState(val)
       THEN [triggerState |-> TRUE,
             counter |-> risingCount(counter),
             ledOut |-> IF allSkipped(risingCount(counter)) THEN "HIGH" ELSE ledOut,
             out |-> IF allSkipped(risingCount(counter)) THEN PrintLn(0) ELSE <<>>]
       ELSE [triggerState |-> FALSE,
             counter |-> IF counter >= pulsesToSkip THEN 0 ELSE counter,
             ledOut |-> IF counter >= pulsesToSkip THEN "LOW" ELSE ledOut,
             out |-> IF counter >= pulsesToSkip THEN PrintLn(1) ELSE <<>>]
  ELSE [triggerState |-> triggerState, counter |-> counter, ledOut |-> ledOut,
        out |-> <<>>]

\* detectTrigger(val): the detector's state, the LED and the line printed
detectTrigger(val) ==
  IF nextState(val) # triggerState
  THEN IF nextState(val)
       THEN [triggerState |-> TRUE,
             counter |-> risingCount(counter),
             ledOut |-> IF allSkipped(risingCount(counter)) THEN "HIGH" ELSE ledOut,
             out |-> IF allSkipped(risingCount(counter)) THEN PrintLn(0) ELSE <<>>]
       ELSE [triggerState |-> FALSE,
             counter |-> fallingCount(counter),
             ledOut |-> IF allSkipped(counter) THEN "LOW" ELSE ledOut,
             out |-> IF allSkipped(counter) THEN PrintLn(1) ELSE <<>>]
  ELSE [triggerState |-> triggerState, counter |-> counter, ledOut |-> ledOut,
        out |-> <<>>]

-----------------------------------------------------------------------------
(* setup: the state after a power-on or reset *)

\* the variables setup() and the start-up code leave behind: statics at
\* their initial values, the levels read from the EEPROM and printed
setup(e) ==
  [command |-> [i \in 0..(MAX_CMD_LEN - 1) |-> NUL],
   inCount |-> 0,
   cmdComplete |-> FALSE,
   mode |-> "D",
   dataOutput |-> "T",
   triggerLevelLow |-> readTriggerLevels(e).low,
   triggerLevelHigh |-> readTriggerLevels(e).high,
   triggerState |-> FALSE,
   counter |-> 0,
   ledOut |-> "LOW",
   tx |-> Readout(readTriggerLevels(e))]

\* power-on with EEPROM contents e, a build with decimation constant n and a
\* host that has the given bytes under way
PowerOn(e, n, pending) ==
  /\ command = setup(e).command
  /\ inCount = setup(e).inCount
  /\ cmdComplete = setup(e).cmdComplete
  /\ mode = setup(e).mode
  /\ dataOutput = setup(e).dataOutput
  /\ triggerLevelLow = setup(e).triggerLevelLow
  /\ triggerLevelHigh = setup(e).triggerLevelHigh
  /\ triggerState = setup(e).triggerState
  /\ counter = setup(e).counter
  /\ ledOut = setup(e).ledOut
  /\ tx = setup(e).tx
  /\ eeprom = e
  /\ pulsesToSkip = n
  /\ pc = "loop"
  /\ rx = pending
  /\ sensorValue = NoSample
  /\ oob = FALSE
  /\ resets = 0
  /\ lastS = NoPair
  /\ hist = <<>>

\* a reset at any moment: setup() runs again; bytes the host sent before the
\* reset may be lost
Reset ==
  /\ resets < MaxResets
  /\ resets' = resets + 1
  /\ command' = setup(eeprom).command
  /\ inCount' = setup(eeprom).inCount
  /\ cmdComplete' = setup(eeprom).cmdComplete
  /\ mode' = setup(eeprom).mode
  /\ dataOutput' = setup(eeprom).dataOutput
  /\ triggerLevelLow' = setup(eeprom).triggerLevelLow
  /\ triggerLevelHigh' = setup(eeprom).triggerLevelHigh
  /\ triggerState' = setup(eeprom).triggerState
  /\ counter' = setup(eeprom).counter
  /\ ledOut' = setup(eeprom).ledOut
  /\ tx' = setup(eeprom).tx
  /\ pc' = "loop"
  /\ \E k \in 0..Len(rx) : rx' = SubSeq(rx, k + 1, Len(rx))
  /\ sensorValue' = NoSample
  /\ oob' = FALSE
  /\ UNCHANGED <<eeprom, pulsesToSkip, lastS, hist>>

-----------------------------------------------------------------------------
(* loop *)

\* variant: the lower-case letter is compared
exitsDataMode_lower(inChar) == inChar = "c"

\* variant: any command letter leaves data mode
exitsDataMode_any(inChar) == inChar \in {"C", "D", "T", "S"}

\* the byte that leaves data mode
exitsDataMode(inChar) == inChar = "C"

\* loop() entered in command mode: doCommand prints its prompt and starts to
\* wait for a line
LoopCommand ==
  /\ pc = "loop" /\ mode = "C"
  /\ tx' = <<">">>
  /\ pc' = "doCommand"
  /\ sensorValue' = NoSample
  /\ UNCHANGED <<command, inCount, cmdComplete, mode, dataOutput,
                 triggerLevelLow, triggerLevelHigh, triggerState, counter,
                 eeprom, pulsesToSkip, ledOut, rx, oob, resets, lastS, hist>>

\* loop() entered in data mode: one pending byte, if there is one, is read
LoopPoll ==
  /\ pc = "loop" /\ mode = "D"
  /\ IF rx # <<>>
     THEN /\ rx' = Tail(rx)
          /\ mode' = IF exitsDataMode(Head(rx)) THEN "C" ELSE mode
     ELSE UNCHANGED <<rx, mode>>
  /\ tx' = <<>>
  /\ pc' = "measure"
  /\ sensorValue' = NoSample
  /\ UNCHANGED <<command, inCount, cmdComplete, dataOutput,
                 triggerLevelLow, triggerLevelHigh, triggerState, counter,
                 eeprom, pulsesToSkip, ledOut, oob, resets, lastS, hist>>

isTerminator(inChar) == inChar \in {LF, CR}

\* variant: the last cell of the buffer is filled as well
hasRoom_full(n) == n < MAX_CMD_LEN

hasRoom(n) == n < MAX_CMD_LEN - 1

\* doCommand, one pass of the read loop: the next byte ends the line, is
\* stored and echoed, or is dropped
ReadByte ==
  /\ pc = "doCommand" /\ ~cmdComplete
  /\ rx # <<>>
  /\ rx' = Tail(rx)
  /\ IF isTerminator(Head(rx))
     THEN /\ command' = [command EXCEPT ![inCount] = NUL]
          /\ tx' = <<CR, LF>>
          /\ cmdComplete' = TRUE
          /\ inCount' = inCount
     ELSE IF hasRoom(inCount)
     THEN /\ command' = [command EXCEPT ![inCount] = Head(rx)]
          /\ inCount' = inCount + 1
          /\ tx' = <<Head(rx)>>
          /\ cmdComplete' = cmdComplete
     ELSE /\ tx' = <<>>
          /\ UNCHANGED <<command, inCount, cmdComplete>>
  /\ sensorValue' = NoSample
  /\ UNCHANGED <<mode, dataOutput, triggerLevelLow, triggerLevelHigh,
                 triggerState, counter, eeprom, pulsesToSkip, ledOut, pc, oob,
                 resets, lastS, hist>>

\* variant: the two letters select each other's output
outputFor_swapped(c) == IF c = "D" THEN "T" ELSE "R"

\* the data output a command letter selects
outputFor(c) == IF c = "D" THEN "R" ELSE "T"

\* variant: the letter C is taken for a data command as well
selectsData_withC(c) == c \in {"D", "T", "C"}

\* the command letters whose case of the switch sets mode = 'D'
selectsData(c) == c \in {"D", "T"}

\* variant: the first character of the buffer is left in place
clearCommand_kept(m) == [i \in 0..(MAX_CMD_LEN - 1) |-> m[i]]

\* command[0] = 0 on the buffer part of memory m: only the first character is
\* cleared, the other bytes stay
clearCommand(m) ==
  [i \in 0..(MAX_CMD_LEN - 1) |-> IF i = 0 THEN NUL ELSE m[i]]

\* doCommand, after the read loop: the switch on command[0], then the buffer
\* is cleared
Interpret ==
  /\ pc = "doCommand" /\ cmdComplete
  /\ IF selectsData(command[0])
     THEN /\ mode' = "D"
          /\ dataOutput' = outputFor(command[0])
          /\ command' = clearCommand(command)
          /\ tx' = <<>>
          /\ UNCHANGED <<eeprom, triggerLevelLow, triggerLevelHigh, oob, lastS>>
     ELSE IF command[0] = "S"
     THEN \E tail \in Tails :
            LET r == setTriggerLevels(Mem(tail))
                e == writeTriggerLevels(r.low, r.high)
            IN  /\ eeprom' = e
                /\ triggerLevelLow' = readTriggerLevels(e).low
                /\ triggerLevelHigh' = readTriggerLevels(e).high
                /\ tx' = Readout(readTriggerLevels(e))
                /\ command' = clearCommand(r.mem)
                /\ oob' = (oob \/ r.last >= MAX_CMD_LEN)
                /\ lastS' = <<r.low, r.high>>
                /\ UNCHANGED <<mode, dataOutput>>
     ELSE /\ command' = clearCommand(command)
          /\ tx' = <<>>
          /\ UNCHANGED <<mode, dataOutput, eeprom, triggerLevelLow,
                         triggerLevelHigh, oob, lastS>>
  /\ inCount' = 0
  /\ cmdComplete' = FALSE
  /\ pc' = "measure"
  /\ sensorValue' = NoSample
  /\ UNCHANGED <<triggerState, counter, pulsesToSkip, ledOut, rx, resets, hist>>

\* the data outputs whose case of the switch prints the sample
printsRaw(d) == d = "R"

\* variant: the raw case falls through into the trigger case
feedsDetector_fallthrough(d) == d \in {"R", "T"}

\* the data outputs whose case of the switch calls detectTrigger
feedsDetector(d) == d = "T"

\* variant: the sample is read and handled in every pass of loop()
measures_always(m) == TRUE

\* the modes in which the end of loop() reads a sample
measures(m) == m = "D"

\* the end of loop(): in data mode one sample is read and handled
measure(val) ==
  /\ pc = "measure"
  /\ pc' = "loop"
  /\ IF measures(mode)
     THEN LET r == IF feedsDetector(dataOutput)
                   THEN detectTrigger(val)
                   ELSE [triggerState |-> triggerState, counter |-> counter,
                         ledOut |-> ledOut, out |-> <<>>]
          IN  /\ sensorValue' = val
              /\ tx' = (IF printsRaw(dataOutput) THEN PrintLn(val) ELSE <<>>) \o r.out
              /\ triggerState' = r.triggerState
              /\ counter' = r.counter
              /\ ledOut' = r.ledOut
     ELSE /\ sensorValue' = NoSample
          /\ tx' = <<>>
          /\ UNCHANGED <<triggerState, counter, ledOut>>
  /\ UNCHANGED <<command, inCount, cmdComplete, mode, dataOutput,
                 triggerLevelLow, triggerLevelHigh, eeprom, pulsesToSkip, rx,
                 oob, resets, lastS>>

Measure == \E val \in Samples : measure(val) /\ UNCHANGED hist

\* a measurement whose sample and output line are recorded
Observe ==
  \E val \in EdgeSamples :
    /\ Len(hist) < MaxSamples
    /\ measure(val)
    /\ hist' = Append(hist, [val |-> val, state |-> triggerState', out |-> tx'])

-----------------------------------------------------------------------------
(* The host *)

\* what the host sends in one piece
HostMsgs ==
  { <<"C">>,
    <<"D", LF>>,
    <<"T", CR>>,
    <<"X", LF>>,
    <<"C", "T", LF>>,
    <<CR>>,
    <<"S", " ", "8", "0", " ", "1", "0", "0", LF>>,
    <<"S", " ", "-", "7", CR>> }

\* The host sends its next message when the device has read the last one; it
\* starts a message in the middle of a line only to end that line.
HostSend ==
  /\ rx = <<>>
  /\ \E msg \in HostMsgs :
       /\ inCount = 0 \/ isTerminator(msg[1])
       /\ rx' = rx \o msg
  /\ tx' = <<>>
  /\ sensorValue' = NoSample
  /\ UNCHANGED <<command, inCount, cmdComplete, mode, dataOutput,
                 triggerLevelLow, triggerLevelHigh, triggerState, counter,
                 eeprom, pulsesToSkip, ledOut, pc, oob, resets, lastS, hist>>

-----------------------------------------------------------------------------
(* Specifications *)

\* an erased EEPROM
Erased == [low |-> 65535, high |-> 65535]

\* the device with a host that sends messages at any time, and resets
Init == \E n \in 0..MaxSkip : PowerOn(Erased, n, <<>>)

Next ==
  \/ LoopCommand
  \/ LoopPoll
  \/ ReadByte
  \/ Interpret
  \/ Measure
  \/ HostSend
  \/ Reset

Spec == Init /\ [][Next]_vars

\* the detector alone: a calibrated device left in trigger mode, every sample
\* recorded
DetectLevels == { [low |-> 80, high |-> 100], [low |-> 120, high |-> 80] }

InitDetect ==
  \E e \in DetectLevels, n \in 0..MaxSkip : PowerOn(e, n, <<>>)

NextDetect ==
  \/ LoopPoll
  \/ Observe

SpecDetect == InitDetect /\ [][NextDetect]_vars

\* the command interpreter: the host enters command mode and sends an S line,
\* possibly after an earlier line
Spaces(k) == [i \in 1..k |-> SP]

Tokens ==
  { <<"8", "5">>, <<"9", "0">>, <<"5">>, <<"a", "b", "c">>,
    <<"-", "7">>, <<"1", "2", "x">> }

SetLines ==
  { <<"S">> \o Spaces(a) \o t1 \o Spaces(b) \o t2 :
      a \in 1..MaxSpaces, b \in 1..MaxSpaces, t1 \in Tokens, t2 \in Tokens }

ShortLines ==
  { <<"S">>,
    <<"S", " ">>,
    <<"S", " ", "8", "5">>,
    <<"S", " ", "8", "5", " ">>,
    <<"S", "8", "5", " ", "9", "0">> }

EarlierLines ==
  { <<"X", "X", " ", "7", "7", " ", "6", "6">>,
    <<"S", " ", "3", " ", "4">>,
    <<"S", " ", "1", "1", " ", "2", "2", " ", "3", "3">>,
    <<"D", "1", "2", "3", "4", "5", "6", "7">> }

ParseScripts ==
  { <<"C">> \o l \o <<LF>> : l \in SetLines \cup ShortLines }
  \cup
  { <<"C">> \o x \o <<CR>> \o l \o <<LF>> :
      x \in EarlierLines, l \in SetLines \cup ShortLines }

InitParse == \E script \in ParseScripts : PowerOn(Erased, MaxSkip, script)

NextParse ==
  \/ LoopCommand
  \/ LoopPoll
  \/ ReadByte
  \/ Interpret
  \/ Measure

SpecParse == InitParse /\ [][NextParse]_vars

\* the command buffer at its limit: the host enters command mode and sends a
\* line about as long as the buffer, up to MaxOver characters longer than it,
\* possibly followed by a short S line
MaxOver == 2

Fill(n, f) == [i \in 1..n |-> f]

LongLines ==
  { <<c>> \o Fill(n, f) :
      c \in {"D", "T", "S", "X"},
      n \in (MAX_CMD_LEN - 4)..(MAX_CMD_LEN - 1 + MaxOver),
      f \in {"x", SP} }

LongScripts ==
  { <<"C">> \o l \o <<t>> : l \in LongLines, t \in {LF, CR} }
  \cup
  { <<"C">> \o l \o <<LF>> \o k \o <<CR>> :
      l \in LongLines, k \in {<<"S">>, <<"S", " ", "5">>} }

InitLong == \E script \in LongScripts : PowerOn(Erased, MaxSkip, script)

SpecLong == InitLong /\ [][NextParse]_vars

\* the loop under fair execution: the input is already pending when the device
\* starts in data mode, the byte C at different places of it, and loop() is
\* called again and again
LiveScripts ==
  { <<>>,
    <<"C">>,
    <<"x", "C">>,
    <<"9", "9">>,
    <<"S", " ", "5", "C", "D", LF>>,
    <<"D", "T", LF, "C", "T", CR, "9", "C">> }

InitLive ==
  \E script \in LiveScripts, e \in DetectLevels, n \in 0..MaxSkip :
    PowerOn(e, n, script)

SpecLive ==
  InitLive /\ [][NextParse]_vars /\ WF_vars(LoopPoll) /\ WF_vars(Measure)

-----------------------------------------------------------------------------
(* Properties of the trigger detector, checked under SpecDetect *)

\* C1: an edge line is printed only in a step in which the pulse counter is
\* above pulsesToSkip at the moment of printing: the line 0 exactly in the step
\* whose increment takes the counter from at most pulsesToSkip to above it, the
\* line 1 only while the counter is above pulsesToSkip.
C1_EdgesOnlyAboveSkip ==
  [][ /\ tx' = PrintLn(0) <=> (counter <= pulsesToSkip /\ counter' > pulsesToSkip)
      /\ tx' = PrintLn(0) => (~triggerState /\ triggerState' /\ counter' = counter + 1)
      /\ tx' = PrintLn(1) => (counter > pulsesToSkip /\ triggerState /\ ~triggerState')
      /\ tx' \in {<<>>, PrintLn(0), PrintLn(1)} ]_vars

\* a rising edge reported after pulsesToSkip skipped pulses
C1_Witness ==
  /\ pulsesToSkip = MaxSkip
  /\ tx = PrintLn(0)
  /\ counter = pulsesToSkip + 1
  /\ triggerState

\* the trigger state before the i-th recorded sample
StateBefore(i) == IF i = 1 THEN FALSE ELSE hist[i - 1].state

RisingAt(i) == ~StateBefore(i) /\ hist[i].state

FallingAt(i) == StateBefore(i) /\ ~hist[i].state

\* the number of rising edges among the first i recorded samples
Ordinal(i) == Cardinality({j \in 1..i : RisingAt(j)})

\* the line expected for the i-th recorded sample when every (N+1)th rising
\* edge and the falling edge after it are reported
ExpectedLine(i) ==
  IF RisingAt(i) /\ Ordinal(i) % (pulsesToSkip + 1) = 0 THEN PrintLn(0)
  ELSE IF FallingAt(i) /\ Ordinal(i) % (pulsesToSkip + 1) = 0 THEN PrintLn(1)
  ELSE <<>>

Vals(h) == [i \in 1..Len(h) |-> h[i].val]

Outs(h) == [i \in 1..Len(h) |-> h[i].out]

\* C2: counting the rising edges of the trigger state from startup, the rising
\* edge whose ordinal is a multiple of pulsesToSkip + 1 is reported (0), the
\* falling edge after a reported rising edge is reported (1), nothing else is
\* printed; levels 80/100, pulsesToSkip = 1 and the samples 50, 120, 50, 120,
\* 50, 120 give 0 at the 4th and 1 at the 5th sample and nothing else.
C2_EveryNthPulse ==
  /\ \A i \in 1..Len(hist) : hist[i].out = ExpectedLine(i)
  /\ ( /\ triggerLevelLow = 80 /\ triggerLevelHigh = 100 /\ pulsesToSkip = 1
       /\ Vals(hist) = <<50, 120, 50, 120, 50, 120>> )
     => Outs(hist) = << <<>>, <<>>, <<>>, <<"0", CR, LF>>, <<"1", CR, LF>>, <<>> >>

\* the run of the example
C2_Witness ==
  /\ triggerLevelLow = 80 /\ triggerLevelHigh = 100 /\ pulsesToSkip = 1
  /\ Vals(hist) = <<50, 120, 50, 120, 50, 120>>
  /\ counter = 1

\* C3: with pulsesToSkip = 0 every change of the trigger state is reported: a
\* step from false to true prints 0, a step from true to false prints 1 and
\* leaves the counter at 0.
C3_NoDecimation ==
  [][ pulsesToSkip = 0 =>
        /\ (~triggerState /\ triggerState') => tx' = PrintLn(0)
        /\ (triggerState /\ ~triggerState') => (tx' = PrintLn(1) /\ counter' = 0) ]_vars

\* the second falling edge of a run without decimation, reported
C3_Witness ==
  /\ pulsesToSkip = 0
  /\ Len(hist) >= 4
  /\ Cardinality({i \in 1..Len(hist) : FallingAt(i)}) = 2
  /\ FallingAt(Len(hist))
  /\ tx = PrintLn(1)
  /\ counter = 0

\* C4: a sample within low..high changes neither the trigger state nor the
\* counter and prints nothing; the state falls only on a sample below low and
\* rises only on a sample above high.
C4_Hysteresis ==
  [][ sensorValue' # NoSample =>
        /\ (triggerLevelLow <= sensorValue' /\ sensorValue' <= triggerLevelHigh)
             => (UNCHANGED <<triggerState, counter, ledOut>> /\ tx' = <<>>)
        /\ (triggerState /\ ~triggerState') => sensorValue' < triggerLevelLow
        /\ (~triggerState /\ triggerState') => sensorValue' > triggerLevelHigh ]_vars

\* the light is on and a sample equal to a level has just been read
C4_Witness ==
  /\ triggerState
  /\ pc = "loop"
  /\ sensorValue = triggerLevelHigh
  /\ triggerLevelLow < triggerLevelHigh
  /\ Len(hist) >= 2
  /\ hist[Len(hist) - 1].state

-----------------------------------------------------------------------------
(* Properties of the S command, checked under SpecParse *)

\* the characters of the line that is in the buffer
Line == [i \in 1..inCount |-> command[i - 1]]

\* the step that interprets a completed line
Dispatch == pc = "doCommand" /\ cmdComplete /\ pc' = "measure"

\* the maximal runs of characters other than the space in s, from position i
\* on, cur being the run under way
RECURSIVE FieldsFrom(_, _, _)
FieldsFrom(s, i, cur) ==
  IF i > Len(s) THEN (IF cur = <<>> THEN <<>> ELSE <<cur>>)
  ELSE IF s[i] = SP
       THEN (IF cur = <<>> THEN <<>> ELSE <<cur>>) \o FieldsFrom(s, i + 1, <<>>)
       ELSE FieldsFrom(s, i + 1, Append(cur, s[i]))

Fields(s) == FieldsFrom(s, 1, <<>>)

\* S, spaces, a token, spaces, a token
TwoTokenForm(l) ==
  /\ Len(l) >= 4
  /\ l[1] = "S" /\ l[2] = SP /\ l[Len(l)] # SP
  /\ Len(Fields(Tail(l))) = 2

\* C5: a line S, spaces, token1, spaces, token2 sets the levels to
\* (atoi(token1), atoi(token2)), however many spaces there are: S 85 90 (also
\* with more spaces) gives 85 and 90, S abc 90 gives 0 and 90.
C5_SetLevelsParsed ==
  [][ (Dispatch /\ TwoTokenForm(Line)) =>
        /\ triggerLevelLow' = atoi(Fields(Tail(Line))[1])
        /\ triggerLevelHigh' = atoi(Fields(Tail(Line))[2])
        /\ Fields(Tail(Line)) = << <<"8", "5">>, <<"9", "0">> >>
             => (triggerLevelLow' = 85 /\ triggerLevelHigh' = 90)
        /\ Fields(Tail(Line)) = << <<"a", "b", "c">>, <<"9", "0">> >>
             => (triggerLevelLow' = 0 /\ triggerLevelHigh' = 90) ]_vars

\* S 85 90 with two spaces in front of each number has been interpreted
C5_Witness ==
  /\ pc = "measure" /\ mode = "C"
  /\ lastS = <<85, 90>>
  /\ triggerLevelLow = 85 /\ triggerLevelHigh = 90
  /\ command[1] = SP /\ command[2] = SP /\ command[3] = "8"
  /\ command[6] = SP /\ command[7] = "9"

\* the levels an S line asks for, going by its characters alone: a missing
\* number counts as 0
Asked(l) ==
  LET f == Fields(Tail(l))
  IN  << IF Len(f) >= 1 THEN atoi(f[1]) ELSE 0,
         IF Len(f) >= 2 THEN atoi(f[2]) ELSE 0 >>

\* C6: the levels an S line sets are those its own characters ask for, with 0
\* for each missing number, whatever lines were processed before.
C6_MissingNumbersGiveZero ==
  [][ (Dispatch /\ command[0] = "S") =>
        (triggerLevelLow' = Asked(Line)[1] /\ triggerLevelHigh' = Asked(Line)[2]) ]_vars

-----------------------------------------------------------------------------
(* Properties of the device, checked under Spec *)

\* a step of the program itself, not a reset
Runs == resets' = resets

\* C7: the levels in RAM are the pair of integers the most recent S command
\* parsed, also after a reset; a reset returns the trigger state, the counter,
\* the mode and the data output to their initial values.
C7_LevelsPersist ==
  /\ [](lastS # NoPair =>
          (triggerLevelLow = lastS[1] /\ triggerLevelHigh = lastS[2]))
  /\ [][ ~Runs => (/\ triggerLevelLow' = triggerLevelLow
                   /\ triggerLevelHigh' = triggerLevelHigh
                   /\ ~triggerState' /\ counter' = 0
                   /\ mode' = "D" /\ dataOutput' = "T") ]_vars

\* just after a reset that followed an S command with a negative level
C7_Witness ==
  /\ resets = 1
  /\ pc = "loop" /\ mode = "D" /\ dataOutput = "T"
  /\ lastS # NoPair /\ lastS[1] = 0 - 7
  /\ triggerLevelLow = 0 - 7
  /\ tx = Readout([low |-> 0 - 7, high |-> lastS[2]])

\* C8: the device starts in data mode with trigger output, trigger state false
\* and counter 0; in data mode the byte C switches to command mode and the
\* rest of that pass of loop() reads no sample and prints nothing; command
\* mode is entered in no other way.
C8_CommandModeOnlyByC ==
  /\ (mode = "D" /\ dataOutput = "T" /\ ~triggerState /\ counter = 0)
  /\ [][ /\ (Runs /\ pc = "loop" /\ mode = "D" /\ rx # <<>> /\ Head(rx) = "C")
              => (mode' = "C" /\ pc' = "measure" /\ tx' = <<>>
                  /\ sensorValue' = NoSample)
         /\ (Runs /\ pc = "measure" /\ mode = "C")
              => (tx' = <<>> /\ sensorValue' = NoSample)
         /\ (mode # "C" /\ mode' = "C")
              => (pc = "loop" /\ rx # <<>> /\ Head(rx) = "C") ]_vars

\* command mode entered from raw output, the pass of loop() finished
C8_Witness ==
  /\ mode = "C" /\ dataOutput = "R"
  /\ pc = "loop"
  /\ tx = <<>> /\ sensorValue = NoSample
  /\ rx = <<>> /\ inCount = 0

\* the measurement at the end of a pass of loop()
Measures == Runs /\ pc = "measure" /\ pc' = "loop"

\* C9: a line beginning with D selects data mode with raw output, one
\* beginning with T data mode with trigger output; a pass of loop() in raw
\* output that reads no C prints nothing but the one sample it reads, as one
\* line (512 gives 512); in trigger output only the lines 0 and 1 are printed.
C9_DataOutput ==
  [][ /\ (Runs /\ Dispatch /\ command[0] = "D") => (mode' = "D" /\ dataOutput' = "R")
      /\ (Runs /\ Dispatch /\ command[0] = "T") => (mode' = "D" /\ dataOutput' = "T")
      /\ (Runs /\ pc = "loop" /\ mode = "D") => tx' = <<>>
      /\ (Measures /\ mode = "D" /\ dataOutput = "R")
           => /\ sensorValue' \in Samples
              /\ tx' = PrintLn(sensorValue')
              /\ sensorValue' = 512 => tx' = <<"5", "1", "2", CR, LF>>
      /\ (Measures /\ mode = "D" /\ dataOutput = "T")
           => /\ sensorValue' \in Samples
              /\ tx' \in {<<>>, <<"0", CR, LF>>, <<"1", CR, LF>>} ]_vars

\* the sample 512 printed in raw output
C9_Witness ==
  /\ mode = "D" /\ dataOutput = "R"
  /\ pc = "loop"
  /\ sensorValue = 512
  /\ tx = <<"5", "1", "2", CR, LF>>

\* C10: the trigger state and the counter change only in the measurement of a
\* pass of loop() in data mode with trigger output: not by the byte C, not by
\* any command line, not by a sample taken in raw output.
C10_DetectorStateKept ==
  [][ (Runs /\ (triggerState' # triggerState \/ counter' # counter))
        => (pc = "measure" /\ mode = "D" /\ dataOutput = "T") ]_vars

\* an S command has just been interpreted while the detector holds a counted
\* pulse
C10_Witness ==
  /\ mode = "C" /\ pc = "measure"
  /\ lastS # NoPair /\ tx = Readout([low |-> lastS[1], high |-> lastS[2]])
  /\ triggerState /\ counter >= 1

\* C11: the levels in RAM and in the EEPROM change only when an S line is
\* interpreted in command mode; in data mode a byte other than C is consumed
\* and changes neither the mode, the data output, the levels, the EEPROM nor
\* the command buffer; a line beginning with C leaves the device in command
\* mode.
C11_LevelsOnlyByS ==
  [][ Runs =>
        /\ (triggerLevelLow' # triggerLevelLow \/ triggerLevelHigh' # triggerLevelHigh
              \/ eeprom' # eeprom)
             => (Dispatch /\ mode = "C" /\ command[0] = "S")
        /\ (pc = "loop" /\ mode = "D" /\ rx # <<>> /\ Head(rx) # "C")
             => /\ rx' = Tail(rx)
                /\ UNCHANGED <<mode, dataOutput, triggerLevelLow, triggerLevelHigh,
                               eeprom, command, inCount, cmdComplete>>
        /\ (Dispatch /\ command[0] = "C") => (mode = "C" /\ mode' = "C") ]_vars

\* in data mode the letter S of an S line has been consumed, the rest of the
\* line is pending and nothing is set
C11_Witness ==
  /\ mode = "D" /\ pc = "measure"
  /\ rx = <<" ", "8", "0", " ", "1", "0", "0", LF>>
  /\ lastS = NoPair
  /\ triggerLevelLow = 0 - 1 /\ triggerLevelHigh = 0 - 1
  /\ inCount = 0 /\ command[0] = NUL

\* the output of one step of the read loop of doCommand: the echo of the
\* stored character, the line break, or nothing for a dropped character
EchoOrBreak == {<<Head(rx)>>, <<CR, LF>>, <<>>}

\* C12: the dispatch of a line whose first character is none of D, T, S (the
\* empty line included) leaves mode C, the data output, the levels, the EEPROM
\* and the detector alone and prints nothing, the only output of the line being
\* the echo and the line break of the read loop; after every dispatch inCount
\* is 0, cmdComplete is false and command[0] is the terminator, the rest of the
\* buffer being as the line left it.
C12_UnknownLineIgnored ==
  [][ Runs =>
        /\ (Dispatch /\ command[0] \notin {"D", "T", "S"})
             => /\ mode = "C" /\ tx' = <<>>
                /\ UNCHANGED <<mode, dataOutput, triggerLevelLow, triggerLevelHigh,
                               eeprom, triggerState, counter, ledOut>>
                /\ \A i \in 1..(MAX_CMD_LEN - 1) : command'[i] = command[i]
        /\ (pc = "doCommand" /\ ~cmdComplete /\ rx # <<>> /\ rx' = Tail(rx))
             => tx' \in EchoOrBreak
        /\ Dispatch => (inCount' = 0 /\ ~cmdComplete' /\ command'[0] = NUL) ]_vars

\* the line CT has just been dispatched in command mode: its second character
\* is still in the buffer, the device is still in command mode
C12_Witness ==
  /\ mode = "C" /\ pc = "measure" /\ rx = <<>> /\ tx = <<>>
  /\ inCount = 0 /\ ~cmdComplete
  /\ command[0] = NUL /\ command[1] = "T" /\ command[2] = NUL
  /\ lastS = NoPair /\ resets = 0

-----------------------------------------------------------------------------
(* Properties of the command buffer, checked under SpecLong *)

\* one pass of the read loop of doCommand takes the next received byte
Reads == pc = "doCommand" /\ ~cmdComplete /\ rx # <<>> /\ rx' = Tail(rx)

\* C13: inCount stays within 0..MAX_CMD_LEN-1; a byte that is no terminator is
\* stored at inCount and echoed once while fewer than MAX_CMD_LEN-1 characters
\* are stored, and is dropped without being stored or echoed once
\* MAX_CMD_LEN-1 characters are stored; the terminator completes the line
\* whatever its length, and the full line is dispatched by its first
\* character.
C13_BufferBound ==
  /\ [](inCount \in 0..(MAX_CMD_LEN - 1))
  /\ [][ /\ Reads =>
              IF isTerminator(Head(rx))
              THEN /\ cmdComplete' /\ inCount' = inCount /\ tx' = <<CR, LF>>
                   /\ command' = [command EXCEPT ![inCount] = NUL]
              ELSE IF inCount = MAX_CMD_LEN - 1
              THEN /\ UNCHANGED <<command, inCount, cmdComplete>>
                   /\ tx' = <<>>
              ELSE /\ command' = [command EXCEPT ![inCount] = Head(rx)]
                   /\ inCount' = inCount + 1
                   /\ tx' = <<Head(rx)>>
                   /\ ~cmdComplete'
         /\ (Dispatch /\ inCount = MAX_CMD_LEN - 1) =>
              /\ command[0] = "D" => (mode' = "D" /\ dataOutput' = "R")
              /\ command[0] = "T" => (mode' = "D" /\ dataOutput' = "T")
              /\ command[0] = "S" => (mode' = "C" /\ lastS' # NoPair
                                        /\ SubSeq(tx', 1, Len(Label)) = Label)
              /\ command[0] = "X" => (mode' = "C" /\ tx' = <<>>) ]_vars

\* the buffer holds MAX_CMD_LEN-1 characters and a further character of the
\* line has just been dropped without an echo
C13_Witness ==
  /\ pc = "doCommand" /\ ~cmdComplete /\ tx = <<>>
  /\ inCount = MAX_CMD_LEN - 1
  /\ command[MAX_CMD_LEN - 2] = "x"
  /\ rx # <<>>

-----------------------------------------------------------------------------
(* Properties of the command cycle, checked under Spec *)

\* the lines a measurement can print: a sample or an edge
DataLines == { PrintLn(v) : v \in Samples \cup {0, 1} }

\* C14: a step that starts in command mode reads no sample and prints no
\* sample or edge line; the read loop of doCommand is entered only by the step
\* that prints the prompt, with an empty line buffer, and inside it only
\* echoes and the line break are printed, so each command cycle has one prompt
\* and it comes before the echo of the line; the device leaves command mode
\* only in the dispatch of a completed line beginning with D or T, a line is
\* completed only by a received terminator, and until then the device stays in
\* the read loop.
C14_CommandCycle ==
  [][ Runs =>
        /\ mode = "C" => (sensorValue' = NoSample /\ tx' \notin DataLines)
        /\ (pc # "doCommand" /\ pc' = "doCommand")
             => (mode = "C" /\ tx' = <<">">> /\ inCount = 0 /\ ~cmdComplete)
        /\ (pc = "doCommand" /\ rx # <<>> /\ rx' = Tail(rx))
             => (tx' \in EchoOrBreak /\ tx' # <<">">>)
        /\ (pc = "doCommand" /\ pc' = "doCommand" /\ inCount' > inCount)
             => tx' = <<command'[inCount]>>
        /\ (mode = "C" /\ mode' # "C")
             => (Dispatch /\ command[0] \in {"D", "T"})
        /\ (~cmdComplete /\ cmdComplete')
             => (pc = "doCommand" /\ rx # <<>> /\ isTerminator(Head(rx)))
        /\ (pc = "doCommand" /\ pc' # "doCommand") => cmdComplete ]_vars

\* the device waits in the read loop of doCommand with the unterminated line C
\* and nothing pending
C14_Witness ==
  /\ mode = "C" /\ pc = "doCommand" /\ ~cmdComplete
  /\ inCount = 1 /\ command[0] = "C" /\ tx = <<"C">>
  /\ rx = <<>> /\ sensorValue = NoSample

-----------------------------------------------------------------------------
(* Progress of the loop in data mode, checked under SpecLive *)

\* the byte C is somewhere in the pending input
PendingC == \E i \in 1..Len(rx) : rx[i] = "C"

\* C15: in data mode the first half of a pass of loop() takes at most one
\* pending byte, the first one, and goes on to the measurement whether or not
\* a byte was pending; the measurement takes no byte and ends the pass; the
\* mode becomes C exactly in the pass that reads the byte C.  Under fair
\* execution every pass in data mode is completed, and a byte C pending in
\* data mode leads to command mode.
C15_DataModeNeverBlocks ==
  /\ [][ /\ (mode = "D" /\ pc = "loop")
              => /\ pc' = "measure"
                 /\ IF rx = <<>> THEN rx' = rx ELSE rx' = Tail(rx)
                 /\ mode' = "C" <=> (rx # <<>> /\ Head(rx) = "C")
         /\ (mode = "D" /\ pc = "measure") => (pc' = "loop" /\ rx' = rx) ]_vars
  /\ (mode = "D" /\ pc = "loop") ~> (pc = "measure")
  /\ (mode = "D" /\ pc = "measure") ~> (pc = "loop")
  /\ (mode = "D" /\ PendingC) ~> (mode = "C")

\* a pass of loop() in data mode has been completed with input pending, the
\* byte C behind another byte
C15_Witness ==
  /\ mode = "D" /\ pc = "loop" /\ sensorValue # NoSample
  /\ Len(rx) >= 2 /\ rx[1] # "C" /\ rx[2] = "C"

-----------------------------------------------------------------------------
(* Properties of the pulse counter and the edge lines, checked under Spec *)

\* C16: in every reachable state the pulse counter is within
\* 0..pulsesToSkip+1, and it is above pulsesToSkip only while the trigger
\* state is true, between a reported rising edge and its falling edge.
C16_CounterBounded ==
  /\ 0 <= counter /\ counter <= pulsesToSkip + 1
  /\ counter > pulsesToSkip => triggerState

\* the counter is at its maximum after levels were set by an S line: a rising
\* edge has been reported and its falling edge is awaited
C16_Witness ==
  /\ counter = pulsesToSkip + 1 /\ triggerState
  /\ pulsesToSkip = MaxSkip /\ lastS # NoPair /\ tx = PrintLn(0)

\* a measurement in trigger mode prints the edge line n
EdgeLine(n) ==
  pc = "measure" /\ mode = "D" /\ dataOutput = "T" /\ tx' = PrintLn(n)

\* C17: between resets, whatever samples, mode switches and S lines come in
\* between, the line 0 is printed only with the LED off and turns it on, the
\* line 1 is printed only with the LED on and turns it off, the LED changes in
\* no other step and is off at the start, so the edge lines alternate 0, 1,
\* 0, 1, ... from 0 and the LED is on exactly after a line 0; while the LED is
\* on the next change of the trigger state prints the line 1.
C17_EdgesAlternate ==
  /\ ledOut = "LOW"
  /\ [][ Runs =>
           /\ EdgeLine(0) => (ledOut = "LOW" /\ ledOut' = "HIGH")
           /\ EdgeLine(1) => (ledOut = "HIGH" /\ ledOut' = "LOW")
           /\ ledOut' # ledOut => (EdgeLine(0) \/ EdgeLine(1))
           /\ (ledOut = "HIGH" /\ triggerState' # triggerState) => EdgeLine(1)
           /\ (dataOutput = "T" /\ tx' \in {PrintLn(0), PrintLn(1)})
                => (EdgeLine(0) \/ EdgeLine(1)) ]_vars

\* a falling edge has just been reported, after a stay in command mode in
\* which the levels were set
C17_Witness ==
  /\ tx = PrintLn(1) /\ ledOut = "LOW" /\ ~triggerState /\ counter = 0
  /\ pc = "loop" /\ mode = "D" /\ dataOutput = "T"
  /\ lastS # NoPair /\ pulsesToSkip = MaxSkip

-----------------------------------------------------------------------------
(* Memory safety of setTriggerLevels, checked under SpecLong *)

\* C18: whatever line doCommand has stored, after whatever earlier lines, the
\* scan pointers p and q of setTriggerLevels stay within
\* command[0..MAX_CMD_LEN-1]: no S line has been interpreted with an access
\* at index MAX_CMD_LEN or above.
C18_ScanStaysInBuffer == ~oob

-----------------------------------------------------------------------------
(* The detector with an inverted pair of levels, checked under SpecDetect *)

\* the low level is above the high level
Inverted == triggerLevelLow > triggerLevelHigh

\* C19: with low above high the detector handles every sample (a measurement
\* is always possible), after each sample the trigger state is exactly
\* (sample > high), also for a sample between the two levels, and the lines
\* printed for the resulting edges are those of the decimation rule: the
\* rising edges whose ordinal is a multiple of pulsesToSkip + 1 and the
\* falling edges after them.
C19_InvertedPair ==
  /\ [][ (Inverted /\ sensorValue' # NoSample)
           => triggerState' = (sensorValue' > triggerLevelHigh) ]_vars
  /\ [](Inverted =>
          /\ \A i \in 1..Len(hist) :
               /\ hist[i].state = (hist[i].val > triggerLevelHigh)
               /\ hist[i].out = ExpectedLine(i)
          /\ (pc = "measure" /\ Len(hist) < MaxSamples) => ENABLED Observe)

\* with low above high a sample between the two levels has just set the
\* trigger state, and the rising edge was reported
C19_Witness ==
  /\ Inverted /\ Len(hist) >= 2
  /\ hist[Len(hist)].val < triggerLevelLow
  /\ hist[Len(hist)].val > triggerLevelHigh
  /\ RisingAt(Len(hist))
  /\ tx = PrintLn(0) /\ ledOut = "HIGH"

=============================================================================
